---- MODULE Spec2Model ----
(***************************************************************************)
(* Model of src/main.py: the lead generator's search / extract / retry /    *)
(* save pipeline.  Text handled by the response parser is a sequence of     *)
(* one-character strings; keywords and URLs are opaque strings.             *)
(***************************************************************************)
EXTENDS Integers, Sequences, FiniteSets, TLC

\* ------------------------------------------------------------------------
\* Configuration (src/main.py:27-36)
\* ------------------------------------------------------------------------
CSV_FILE == "lead_customer_list.csv"

SEARCH_KEYWORDS ==
  << "software development company in New York",
     "marketing agency in London",
     "web design company in Los Angeles" >>

MAX_RESULTS_PER_KEYWORD == 5

MAX_RETRIES == 3

RETRY_DELAY == 5

\* num=min(10, ...) and start_index += 10 in google_search_cse
PAGE_SIZE == 10

\* if start_index > 100: break
MAX_START_INDEX == 100

\* ------------------------------------------------------------------------
\* Bounds of the model (not program constants)
\* ------------------------------------------------------------------------
\* At most this many extraction attempts of one run succeed.
MaxRecords == 2

\* ------------------------------------------------------------------------
\* Environment: what the provider and the language model may answer
\* ------------------------------------------------------------------------
\* Links the provider hands out; the same link may come back several times,
\* and nothing in google_search_cse rules out an empty one.
URLS == << "http://a.example", "", "http://b.example" >>

NL == "\n"

Whitespace == {" ", "\t", "\r"}

KeyCompanyName == <<"C","o","m","p","a","n","y"," ","N","a","m","e">>

KeyAddress == <<"A","d","d","r","e","s","s">>

KeyTel == <<"T","e","l">>

KeyFax == <<"F","a","x">>

KeyOverview == <<"O","v","e","r","v","i","e","w">>

\* "Company Name: Acme\nTel :5\nfax: 9"
RespAcme ==
  KeyCompanyName \o <<":"," ","A","c","m","e">> \o <<NL>>
    \o KeyTel \o <<" ",":","5">> \o <<NL>>
    \o <<"f","a","x",":"," ","9">>

\* "URL: x\nKeyword:y\nn/a"  -- no known label at all
RespNoFields ==
  <<"U","R","L",":"," ","x">> \o <<NL>>
    \o <<"K","e","y","w","o","r","d",":","y">> \o <<NL>>
    \o <<"n","/","a">>

Responses == {RespAcme, RespNoFields}

\* ------------------------------------------------------------------------
\* extract_company_info: parsing of the model response (src/main.py:116-139)
\* ------------------------------------------------------------------------
ContentFields == {"Company Name", "Address", "Tel", "Fax", "Overview"}

MutEmptyCompanyData == [f \in ContentFields \ {"Fax"} |-> <<>>]

EmptyCompanyData == [f \in ContentFields |-> <<>>]

HasChar(s, c) == \E i \in 1..Len(s) : s[i] = c

FirstIndex(s, c) == CHOOSE i \in 1..Len(s) : s[i] = c /\ \A j \in 1..(i - 1) : s[j] # c

\* str.split(sep) for a one-character separator
RECURSIVE Split(_, _)
Split(s, sep) ==
  IF ~HasChar(s, sep) THEN <<s>>
  ELSE LET i == FirstIndex(s, sep)
       IN  <<SubSeq(s, 1, i - 1)>> \o Split(SubSeq(s, i + 1, Len(s)), sep)

\* str.split(":", 1) on a line that holds a colon
MutSplitFirstColon(line) ==
  LET i == CHOOSE k \in 1..Len(line) : line[k] = ":" /\ \A j \in (k + 1)..Len(line) : line[j] # ":"
  IN  <<SubSeq(line, 1, i - 1), SubSeq(line, i + 1, Len(line))>>

SplitFirstColon(line) ==
  LET i == FirstIndex(line, ":")
  IN  <<SubSeq(line, 1, i - 1), SubSeq(line, i + 1, Len(line))>>

RECURSIVE LStrip(_)
LStrip(s) == IF s # <<>> /\ Head(s) \in Whitespace THEN LStrip(Tail(s)) ELSE s

RECURSIVE RStrip(_)
RStrip(s) ==
  IF s # <<>> /\ s[Len(s)] \in Whitespace THEN RStrip(SubSeq(s, 1, Len(s) - 1)) ELSE s

\* str.strip()
Strip(s) == RStrip(LStrip(s))

\* the body of "for line in extracted_info.split('\n')"
AssignLine(company_data, line) ==
  IF HasChar(line, ":")
  THEN LET kv    == SplitFirstColon(line)
           key   == Strip(kv[1])
           value == Strip(kv[2])
       IN  IF key = KeyCompanyName THEN [company_data EXCEPT !["Company Name"] = value]
           ELSE IF key = KeyAddress THEN [company_data EXCEPT !["Address"] = value]
           ELSE IF key = KeyTel THEN [company_data EXCEPT !["Tel"] = value]
           ELSE IF key = KeyFax THEN [company_data EXCEPT !["Fax"] = value]
           ELSE IF key = KeyOverview THEN [company_data EXCEPT !["Overview"] = value]
           ELSE company_data
  ELSE company_data

RECURSIVE AssignLines(_, _)
AssignLines(company_data, lines) ==
  IF lines = <<>> THEN company_data
  ELSE AssignLines(AssignLine(company_data, Head(lines)), Tail(lines))

ParseInfo(extracted_info) == AssignLines(EmptyCompanyData, Split(extracted_info, NL))

\* ------------------------------------------------------------------------
\* extract_company_info as a whole (src/main.py:84-146)
\* ------------------------------------------------------------------------
\* What the world does to one extraction attempt: the fetch fails
\* (requests.exceptions.RequestException), something else raises while
\* parsing or completing (Exception), or the model answers with a text.
FetchError == [kind |-> "fetch_error", text |-> <<>>]

OtherError == [kind |-> "exception", text |-> <<>>]

Answer(text) == [kind |-> "ok", text |-> text]

\* requests.get(url) raises MissingSchema, a RequestException, for a url
\* without a scheme: such a url never gets past the fetch.
Fetchable(u) == u # ""

NoneValue == [none |-> TRUE, data |-> EmptyCompanyData]

\* Both except clauses return None; otherwise the parsed dictionary.
extract_company_info(world) ==
  IF world.kind = "ok"
  THEN [none |-> FALSE, data |-> ParseInfo(world.text)]
  ELSE NoneValue

\* "if company_info:" -- None and the empty dict are falsy
MutTruthy(company_info) ==
  ~company_info.none /\ \E f \in DOMAIN company_info.data : company_info.data[f] # <<>>

Truthy(company_info) == ~company_info.none /\ DOMAIN company_info.data # {}

\* company_info["Keyword"] = keyword; company_info["URL"] = url
MutStamp(company_data, keyword, url) ==
  [f \in DOMAIN company_data \cup {"Keyword", "URL"} |->
     IF f = "Keyword" THEN url
     ELSE IF f = "URL" THEN keyword
     ELSE company_data[f]]

Stamp(company_data, keyword, url) ==
  [f \in DOMAIN company_data \cup {"Keyword", "URL"} |->
     IF f = "Keyword" THEN keyword
     ELSE IF f = "URL" THEN url
     ELSE company_data[f]]

\* ------------------------------------------------------------------------
\* google_search_cse (src/main.py:41-71)
\* ------------------------------------------------------------------------
Min(a, b) == IF a < b THEN a ELSE b

\* num=min(10, num_results - len(urls))
MutRequested(num_results, have) == PAGE_SIZE

Requested(num_results, have) == Min(PAGE_SIZE, num_results - have)

\* item["link"] of the n-th item the provider delivers for a query
Link(n) == URLS[((n - 1) % Len(URLS)) + 1]

\* the links of res["items"] for a page of p items, have items delivered before
PageItems(have, p) == [i \in 1..p |-> Link(have + i)]

\* "while len(urls) < num_results": the call goes on or returns
SearchLoopHead(us, num_results) ==
  IF Len(us) < num_results THEN "search" ELSE "return"

\* after a page: start_index > 100 breaks, else the loop test
MutAfterPage(us, start, num_results) == SearchLoopHead(us, num_results)

AfterPage(us, start, num_results) ==
  IF start > MAX_START_INDEX THEN "return" ELSE SearchLoopHead(us, num_results)

\* except HttpError: print, break
MutOnHttpError(us, num_results) == SearchLoopHead(us, num_results)

OnHttpError(us, num_results) == "return"

\* ------------------------------------------------------------------------
\* main: control flow of the loops (src/main.py:176-198)
\* ------------------------------------------------------------------------
\* "for url in urls": is there a next URL
MutHasNextUrl(i, us) == i <= Len(us)

HasNextUrl(i, us) == i < Len(us)

\* "while retries < MAX_RETRIES"
MutRetryLoopHead(r) == IF r <= MAX_RETRIES THEN "attempt" ELSE "after_loop"

RetryLoopHead(r) == IF r < MAX_RETRIES THEN "attempt" ELSE "after_loop"

\* "break" after the append
MutAfterSuccess(r) == RetryLoopHead(r)

AfterSuccess(r) == "after_loop"

\* "if retries == MAX_RETRIES": the permanent failure is reported
MutExhausted(r) == r >= MAX_RETRIES - 1

Exhausted(r) == r = MAX_RETRIES

\* after the "if retries == MAX_RETRIES" statement: on to the next URL
MutAfterUrl(r) == IF r = MAX_RETRIES THEN "kw_loop" ELSE "url_loop"

AfterUrl(r) == "url_loop"

\* the "for url in urls" loop is over: on to the next keyword
MutAfterUrls(k) == "save"

AfterUrls(k) == "kw_loop"

\* ------------------------------------------------------------------------
\* save_to_csv (src/main.py:149-167)
\* ------------------------------------------------------------------------
fieldnames == <<"Keyword", "Company Name", "Address", "Tel", "Fax", "Overview", "URL">>

\* "if not data:" -- nothing is written
MutNoData(data) == FALSE

NoData(data) == data = <<>>

\* CSV_FILE before the run: not there, or there with other content
AbsentFile == [state |-> "absent", header |-> <<>>, rows |-> <<>>]

OldFile == [state |-> "old", header |-> <<>>, rows |-> <<>>]

\* open(filename, "w"), writeheader, one writerow per record
WriteCsv(data) ==
  [state  |-> "written",
   header |-> fieldnames,
   rows   |-> [i \in 1..Len(data) |-> [j \in 1..Len(fieldnames) |-> data[i][fieldnames[j]]]]]

\* ------------------------------------------------------------------------
\* Module-level configuration check (src/main.py:15-23)
\* ------------------------------------------------------------------------
Credentials == {"GOOGLE_API_KEY", "GOOGLE_CSE_ID", "OPENAI_API_KEY"}

\* os.environ.get(name): None when the variable is absent, else its text
EnvNone == [present |-> FALSE, text |-> ""]

EnvText(t) == [present |-> TRUE, text |-> t]

EnvValues == {EnvNone, EnvText(""), EnvText("secret")}

\* truth value of what os.environ.get returned: None and "" are falsy
EnvTruthy(v) == v.present /\ v.text # ""

\* all([GOOGLE_API_KEY, GOOGLE_CSE_ID, OPENAI_API_KEY])
MutConfigComplete(e) == \E c \in Credentials : EnvTruthy(e[c])

ConfigComplete(e) == \A c \in Credentials : EnvTruthy(e[c])

\* ------------------------------------------------------------------------
\* State
\* ------------------------------------------------------------------------
VARIABLES
  pc,               \* where the run is: "startup", "fatal", "kw_loop", "search",
                    \* "return", "url_loop", "attempt", "sleep", "after_loop",
                    \* "save", "done", "aborted"
  env,              \* the three credentials as os.environ.get returns them
  ki,               \* index of the current keyword in SEARCH_KEYWORDS (0: none yet)
  urls,             \* google_search_cse's list, then main's urls
  start_index,      \* google_search_cse's start_index (1 outside a call)
  ui,               \* index of the current url in urls (0: none yet)
  retries,          \* main's retries
  all_company_data, \* the Result Set
  csvfile,          \* CSV_FILE on disk: AbsentFile, OldFile or what save_to_csv wrote
  \* -- observation of the run (not read by the program) --
  csv0,             \* CSV_FILE on disk when the run started
  attempts,         \* calls of extract_company_info for the current url
  fails,            \* of which returned None
  waited,           \* time units slept for the current url
  urlRecords,       \* records appended for the current url
  outcome,          \* of the current url: "none", "done", "exhausted" ("both":
                    \* a record and a failure notice for the same url)
  lastError,        \* how the attempt that has just returned failed ("none" otherwise)
  provenance,       \* per record: the keyword and url being processed at its
                    \* append, and their positions in SEARCH_KEYWORDS and urls
  kwAttempts,       \* calls of extract_company_info for the current keyword
  kwNotices,        \* permanent-failure notices printed for the current keyword
  dataAtKw,         \* the Result Set when the current keyword was started
  attempted,        \* indices of urls that got an attempt, current keyword
  terminal,         \* indices of urls that ended done or exhausted, current keyword
  kwComplete,       \* keywords whose url loop ran to its end
  providerCalls,    \* provider calls of the search in progress (0 outside a call)
  httpErr,          \* the current search hit an HttpError
  callsAtErr,       \* providerCalls when it did
  urlsAtErr,        \* urls when it did
  sinkCalls,        \* calls of save_to_csv
  fileWrites,       \* times CSV_FILE was opened for writing
  report,           \* save_to_csv's notice: "none", "no data", "saved"
  \* -- one call of the response parser, taken alone (SpecParse) --
  ppc,              \* "idle", "call", "lines", "returned"
  reply,            \* extracted_info, the model's answer
  plines,           \* the lines of reply not yet looked at
  parsed,           \* company_data as built so far
  \* -- observation: the order of the work --
  searched,         \* the queries google_search_cse was called with, in order
  started,          \* the urls of this keyword handed to extract_company_info,
                    \* in order of their first attempt
  \* -- one call of save_to_csv on text fields, taken alone (SpecCsv) --
  cpc,              \* "idle", "call", "written", "read"
  cdata,            \* data, the records handed to save_to_csv
  ctext,            \* the characters of the file written
  cback             \* the csv reader going through ctext, and its rows

progVars == <<pc, env, ki, urls, start_index, ui, retries, all_company_data, csvfile>>

urlObs == <<attempts, fails, waited, urlRecords, outcome, lastError>>

kwObs == <<kwAttempts, kwNotices, dataAtKw, attempted, terminal>>

searchObs == <<providerCalls, httpErr, callsAtErr, urlsAtErr>>

sinkObs == <<sinkCalls, fileWrites, report>>

parseVars == <<ppc, reply, plines, parsed>>

\* what no step of main changes
csvVars == <<cpc, cdata, ctext, cback>>

frozen == <<env, csv0, parseVars, csvVars>>

orderObs == <<searched, started>>

mainVars ==
  <<progVars, csv0, urlObs, kwObs, searchObs, sinkObs, provenance, kwComplete, orderObs>>

vars == <<mainVars, parseVars, csvVars>>

NumKeywords == Len(SEARCH_KEYWORDS)

keyword == SEARCH_KEYWORDS[ki]

MutUrl == urls[Len(urls) + 1 - ui]

url == urls[ui]

\* no parser call is looked at on its own
ParseIdle == ppc = "idle" /\ reply = <<>> /\ plines = <<>> /\ parsed = <<>>

\* no file text is looked at on its own
CsvIdle ==
  /\ cpc = "idle" /\ cdata = <<>> /\ ctext = <<>>
  /\ cback = [rows |-> <<>>, row |-> <<>>, field |-> <<>>, mode |-> "start_record", pos |-> 0]

MainInit ==
  /\ pc = "startup"
  /\ env \in [Credentials -> EnvValues]
  /\ ki = 0
  /\ urls = <<>>
  /\ start_index = 1
  /\ ui = 0
  /\ retries = 0
  /\ all_company_data = <<>>
  /\ csvfile \in {AbsentFile, OldFile}
  /\ csv0 = csvfile
  /\ attempts = 0 /\ fails = 0 /\ waited = 0 /\ urlRecords = 0
  /\ outcome = "none" /\ lastError = "none"
  /\ provenance = <<>>
  /\ kwAttempts = 0 /\ kwNotices = 0 /\ dataAtKw = <<>>
  /\ attempted = {} /\ terminal = {}
  /\ kwComplete = {}
  /\ providerCalls = 0 /\ httpErr = FALSE /\ callsAtErr = 0 /\ urlsAtErr = <<>>
  /\ sinkCalls = 0 /\ fileWrites = 0 /\ report = "none"
  /\ searched = <<>> /\ started = <<>>

Init == MainInit /\ ParseIdle /\ CsvIdle

\* ------------------------------------------------------------------------
\* Actions
\* ------------------------------------------------------------------------
\* The module body: the credentials are read and checked; with all three
\* present main() is entered (all_company_data = []), else ValueError ends
\* the process.
Startup ==
  /\ pc = "startup"
  /\ pc' = IF ConfigComplete(env) THEN "kw_loop" ELSE "fatal"
  /\ all_company_data' = <<>>
  /\ UNCHANGED <<ki, urls, start_index, ui, retries, csvfile, frozen, orderObs, urlObs, kwObs,
                 searchObs, sinkObs, provenance, kwComplete>>

\* "for keyword in SEARCH_KEYWORDS": the next keyword enters google_search_cse
\* (urls = [], start_index = 1, first loop test), or the loop is over.
NextKeyword ==
  /\ pc = "kw_loop"
  /\ IF ki < NumKeywords
     THEN /\ ki' = ki + 1
          /\ urls' = <<>>
          /\ start_index' = 1
          /\ ui' = 0
          /\ pc' = SearchLoopHead(<<>>, MAX_RESULTS_PER_KEYWORD)
          /\ kwAttempts' = 0 /\ kwNotices' = 0
          /\ dataAtKw' = all_company_data
          /\ attempted' = {} /\ terminal' = {}
          /\ providerCalls' = 0 /\ httpErr' = FALSE
          /\ callsAtErr' = 0 /\ urlsAtErr' = <<>>
          /\ attempts' = 0 /\ fails' = 0 /\ waited' = 0 /\ urlRecords' = 0
          /\ outcome' = "none" /\ lastError' = "none"
          /\ searched' = Append(searched, keyword')
          /\ started' = <<>>
     ELSE /\ pc' = "save"
          /\ UNCHANGED <<ki, urls, start_index, ui, urlObs, kwObs, searchObs, orderObs>>
  /\ UNCHANGED <<retries, all_company_data, csvfile, frozen, sinkObs, provenance, kwComplete>>

\* One provider call that answers with a page of p items (p = 0: no "items").
SearchPage ==
  /\ pc = "search"
  /\ \E p \in 0..Requested(MAX_RESULTS_PER_KEYWORD, Len(urls)) :
       /\ urls' = urls \o PageItems(Len(urls), p)
       /\ start_index' = start_index + PAGE_SIZE
       /\ pc' = AfterPage(urls', start_index', MAX_RESULTS_PER_KEYWORD)
  /\ providerCalls' = providerCalls + 1
  /\ UNCHANGED <<ki, ui, retries, all_company_data, csvfile, frozen, orderObs, urlObs, kwObs,
                 httpErr, callsAtErr, urlsAtErr, sinkObs, provenance, kwComplete>>

\* One provider call that raises HttpError: diagnostic, break, return urls.
SearchHttpError ==
  /\ pc = "search"
  /\ providerCalls' = providerCalls + 1
  /\ httpErr' = TRUE
  /\ callsAtErr' = providerCalls + 1
  /\ urlsAtErr' = urls
  /\ pc' = OnHttpError(urls, MAX_RESULTS_PER_KEYWORD)
  /\ UNCHANGED <<ki, urls, start_index, ui, retries, all_company_data, csvfile, frozen, orderObs,
                 urlObs, kwObs, sinkObs, provenance, kwComplete>>

\* One provider call that raises anything but HttpError: nothing in
\* google_search_cse or main catches it, the run ends with a traceback.
SearchUncaught ==
  /\ pc = "search"
  /\ providerCalls' = providerCalls + 1
  /\ pc' = "aborted"
  /\ UNCHANGED <<ki, urls, start_index, ui, retries, all_company_data, csvfile, frozen, orderObs,
                 urlObs, kwObs, httpErr, callsAtErr, urlsAtErr, sinkObs, provenance,
                 kwComplete>>

\* "return urls": google_search_cse's locals go, main has urls and prints
\* how many were found.
SearchReturn ==
  /\ pc = "return"
  /\ start_index' = 1
  /\ providerCalls' = 0
  /\ callsAtErr' = 0
  /\ ui' = 0
  /\ pc' = "url_loop"
  /\ UNCHANGED <<ki, urls, retries, all_company_data, csvfile, frozen, orderObs, urlObs, kwObs,
                 httpErr, urlsAtErr, sinkObs, provenance, kwComplete>>

\* "for url in urls": the next url (retries = 0, first loop test), or the
\* loop is over.
NextUrl ==
  /\ pc = "url_loop"
  /\ UNCHANGED <<ki, urls, start_index, all_company_data, csvfile, frozen, orderObs, kwObs,
                 searchObs, sinkObs, provenance>>
  /\ IF HasNextUrl(ui, urls)
     THEN /\ ui' = ui + 1
          /\ retries' = 0
          /\ pc' = RetryLoopHead(0)
          /\ attempts' = 0 /\ fails' = 0 /\ waited' = 0 /\ urlRecords' = 0
          /\ outcome' = "none" /\ lastError' = "none"
          /\ UNCHANGED kwComplete
     ELSE /\ pc' = AfterUrls(ki)
          /\ kwComplete' = kwComplete \cup {ki}
          /\ UNCHANGED <<ui, retries, urlObs>>

\* all_company_data.append(company_info)
MutAppendRecord(data, company_info) == <<company_info>> \o data

AppendRecord(data, company_info) == Append(data, company_info)

\* What may happen to an attempt; the number of successes of a run is bounded.
Worlds ==
  {FetchError, OtherError}
    \cup (IF Fetchable(url) /\ Len(all_company_data) < MaxRecords
          THEN {Answer(t) : t \in Responses}
          ELSE {})

\* One pass of the retry loop body: extract_company_info(url), then either
\* stamp, append and break, or count the retry and announce the sleep.
Attempt ==
  /\ pc = "attempt"
  /\ \E world \in Worlds :
       LET company_info == extract_company_info(world)
       IN  /\ attempts' = attempts + 1
           /\ kwAttempts' = kwAttempts + 1
           /\ attempted' = attempted \cup {ui}
           /\ started' = (IF attempts = 0 THEN Append(started, url) ELSE started)
           /\ IF Truthy(company_info)
              THEN /\ all_company_data' =
                        AppendRecord(all_company_data,
                                     Stamp(company_info.data, keyword, url))
                   /\ provenance' = Append(provenance, <<keyword, url, ki, ui>>)
                   /\ urlRecords' = urlRecords + 1
                   /\ outcome' = "done"
                   /\ terminal' = terminal \cup {ui}
                   /\ lastError' = "none"
                   /\ pc' = AfterSuccess(retries)
                   /\ UNCHANGED <<retries, fails>>
              ELSE /\ retries' = retries + 1
                   /\ fails' = fails + 1
                   /\ lastError' = world.kind
                   /\ pc' = "sleep"
                   /\ UNCHANGED <<all_company_data, provenance, urlRecords, outcome, terminal>>
  /\ UNCHANGED <<ki, urls, start_index, ui, csvfile, frozen, searched, waited, kwNotices,
                 dataAtKw, searchObs, sinkObs, kwComplete>>

\* time.sleep(RETRY_DELAY) returns; back to the loop test.
Sleep ==
  /\ pc = "sleep"
  /\ waited' = waited + RETRY_DELAY
  /\ lastError' = "none"
  /\ pc' = RetryLoopHead(retries)
  /\ UNCHANGED <<ki, urls, start_index, ui, retries, all_company_data, csvfile, frozen, orderObs,
                 attempts, fails, urlRecords, outcome, kwObs, searchObs,
                 sinkObs, provenance, kwComplete>>

\* "if retries == MAX_RETRIES": the permanent-failure notice.
AfterLoop ==
  /\ pc = "after_loop"
  /\ IF Exhausted(retries)
     THEN /\ kwNotices' = kwNotices + 1
          /\ outcome' = (IF outcome = "done" THEN "both" ELSE "exhausted")
          /\ terminal' = terminal \cup {ui}
     ELSE UNCHANGED <<kwNotices, outcome, terminal>>
  /\ pc' = AfterUrl(retries)
  /\ UNCHANGED <<ki, urls, start_index, ui, retries, all_company_data, csvfile, frozen, orderObs,
                 attempts, fails, waited, urlRecords, lastError, kwAttempts, dataAtKw,
                 attempted, searchObs, sinkObs, provenance, kwComplete>>

\* save_to_csv(all_company_data, CSV_FILE), then main returns.
Save ==
  /\ pc = "save"
  /\ sinkCalls' = sinkCalls + 1
  /\ IF NoData(all_company_data)
     THEN /\ report' = "no data"
          /\ UNCHANGED <<csvfile, fileWrites>>
     ELSE /\ csvfile' = WriteCsv(all_company_data)
          /\ fileWrites' = fileWrites + 1
          /\ report' = "saved"
  /\ pc' = "done"
  /\ UNCHANGED <<ki, urls, start_index, ui, retries, all_company_data, frozen, orderObs, urlObs,
                 kwObs, searchObs, provenance, kwComplete>>

Next ==
  \/ Startup
  \/ NextKeyword
  \/ SearchPage
  \/ SearchHttpError
  \/ SearchUncaught
  \/ SearchReturn
  \/ NextUrl
  \/ Attempt
  \/ Sleep
  \/ AfterLoop
  \/ Save

Spec == Init /\ [][Next]_vars

\* ------------------------------------------------------------------------
\* Properties
\* ------------------------------------------------------------------------
\* The url numbered ui has left the retry loop and its failure test.
UrlFinished == ui >= 1 /\ pc \in {"url_loop", "kw_loop", "save", "done"}

\* The url loop of keyword ki is over.
UrlsFinished == ki >= 1 /\ pc \in {"kw_loop", "save", "done"}

\* C1: a url whose every attempt fails gets exactly MAX_RETRIES calls of
\* extract_company_info, is then reported as permanently failed, and gets
\* no attempt after that.
C1_ExhaustedAfterMaxAttempts ==
  /\ attempts <= MAX_RETRIES
  /\ (UrlFinished /\ fails = attempts) =>
        (attempts = MAX_RETRIES /\ outcome = "exhausted")
  /\ outcome = "exhausted" =>
        /\ attempts = MAX_RETRIES
        /\ fails = MAX_RETRIES
        /\ pc \notin {"attempt", "sleep", "after_loop"}

C1_Witness ==
  /\ outcome = "exhausted" /\ pc = "url_loop"
  /\ attempts = MAX_RETRIES /\ fails = MAX_RETRIES

\* C2: a url that first succeeds on attempt k (1 <= k <= MAX_RETRIES) gets
\* exactly k attempts (the k - 1 failures and the success), exactly one record
\* and no attempt after the success, k = MAX_RETRIES included.
C2_StopsAtFirstSuccess ==
  /\ urlRecords <= 1
  /\ (urlRecords = 1) <=> (outcome = "done")
  /\ outcome = "done" =>
        /\ attempts = fails + 1
        /\ attempts \in 1..MAX_RETRIES
        /\ Len(all_company_data) >= 1
        /\ pc \notin {"attempt", "sleep"}
  /\ UrlFinished => (outcome = "done" <=> attempts = fails + 1)

C2_Witness ==
  /\ outcome = "done" /\ pc = "url_loop"
  /\ attempts = MAX_RETRIES /\ fails = MAX_RETRIES - 1 /\ urlRecords = 1

\* A record none of whose content fields was filled in.
AllBlank(rec) == \A f \in ContentFields : rec[f] = <<>>

\* C3: every record of the Result Set has non-empty Keyword and URL, equal
\* to the keyword and the url that were being processed at its append,
\* whatever the model's answer held.
C3_ProvenanceStamped ==
  /\ Len(provenance) = Len(all_company_data)
  /\ \A i \in 1..Len(all_company_data) :
        /\ all_company_data[i]["Keyword"] # ""
        /\ all_company_data[i]["URL"] # ""
        /\ all_company_data[i]["Keyword"] = provenance[i][1]
        /\ all_company_data[i]["URL"] = provenance[i][2]

C3_Witness ==
  \E i \in 1..Len(all_company_data) :
     /\ AllBlank(all_company_data[i])
     /\ all_company_data[i]["Keyword"] = SEARCH_KEYWORDS[2]
     /\ all_company_data[i]["URL"] = "http://b.example"

\* C4: a failed attempt, whatever its cause, is a failure outcome and never
\* ends the run; an exhausted url appends nothing and the next url follows,
\* so every url returned for a keyword gets at least one attempt.
C4_FailuresContained ==
  /\ pc = "sleep" => (lastError \in {"fetch_error", "exception"} /\ fails = retries)
  /\ pc = "aborted" => (ui = 0 /\ attempts = 0 /\ fails = 0)
  /\ outcome = "exhausted" =>
        (urlRecords = 0 /\ Len(all_company_data) <= Len(dataAtKw) + (ui - 1))
  /\ ui >= 1 => (1..(ui - 1)) \subseteq attempted
  /\ UrlsFinished => attempted = 1..Len(urls)

C4_Witness ==
  /\ pc = "kw_loop" /\ ki = 2
  /\ Len(urls) = 3 /\ attempted = {1, 2, 3}
  /\ kwNotices = 2 /\ outcome = "done" /\ lastError = "none"
  /\ Len(all_company_data) = Len(dataAtKw) + 1

\* C5: a query for which the search returns no url leaves the Result Set
\* as it was, gets no extraction attempt and no permanent-failure notice.
C5_NoUrlsNoEffect ==
  (ki >= 1 /\ urls = <<>> /\ pc \notin {"search", "aborted"}) =>
     /\ all_company_data = dataAtKw
     /\ kwAttempts = 0
     /\ kwNotices = 0
     /\ pc \in {"return", "url_loop", "kw_loop", "save", "done"}

C5_Witness ==
  /\ pc = "kw_loop" /\ ki = 2 /\ urls = <<>>
  /\ all_company_data # <<>> /\ all_company_data = dataAtKw

\* C6 (as claimed): the delay is waited only after a failed attempt
\* n < MAX_RETRIES, so an exhausted url waits MAX_RETRIES - 1 delays and a
\* url that succeeds on attempt k waits k - 1 delays.
C6_DelayOnlyBeforeRetry ==
  /\ pc = "sleep" => retries < MAX_RETRIES
  /\ outcome = "exhausted" => waited = RETRY_DELAY * (MAX_RETRIES - 1)
  /\ outcome = "done" => waited = RETRY_DELAY * (attempts - 1)

\* C7: google_search_cse returns between 0 and num_results urls when no
\* page holds more items than were asked for.
C7_SearchLengthBounded ==
  /\ Len(urls) <= MAX_RESULTS_PER_KEYWORD
  /\ pc = "return" => Len(urls) \in 0..MAX_RESULTS_PER_KEYWORD

C7_Witness ==
  /\ pc = "return" /\ Len(urls) = MAX_RESULTS_PER_KEYWORD
  /\ providerCalls = 3

\* C8: an HttpError on any page ends the pagination at once (no further
\* provider call for the query), the urls collected so far are returned in
\* order and processed, and the next keyword is searched.
C8_ErrorState ==
  httpErr =>
     /\ pc \notin {"search", "aborted"}
     /\ urls = urlsAtErr
     /\ pc = "return" => providerCalls = callsAtErr
     /\ UrlsFinished => attempted = 1..Len(urlsAtErr)

C8_ErrorStep ==
  (httpErr /\ pc = "kw_loop" /\ ki < NumKeywords) =>
     (ki' = ki + 1 /\ pc' = "search" /\ providerCalls' = 0)

C8_HttpErrorTruncates == [](C8_ErrorState) /\ [][C8_ErrorStep]_vars

C8_Witness ==
  /\ httpErr /\ pc = "kw_loop" /\ ki = 1
  /\ Len(urls) = 2 /\ attempted = {1, 2}

\* C9: save_to_csv is called at most once, only when every keyword's url
\* loop is over with every url done or exhausted, and every run that reaches
\* its end calls it; before that nothing is written, so a run that ends
\* early leaves the file as it was.
C9_SinkOnceAtEnd ==
  /\ sinkCalls <= 1
  /\ fileWrites <= sinkCalls
  /\ (sinkCalls = 1) <=> (pc = "done")
  /\ ki \in kwComplete => terminal = 1..Len(urls)
  /\ sinkCalls = 1 => kwComplete = 1..NumKeywords
  /\ pc # "done" => (csvfile = csv0 /\ fileWrites = 0 /\ report = "none")

C9_Witness ==
  /\ pc = "done" /\ sinkCalls = 1 /\ fileWrites = 1
  /\ Len(all_company_data) = 2 /\ csvfile = WriteCsv(all_company_data)

\* C10: with an empty Result Set save_to_csv writes nothing (the file is
\* neither created nor overwritten), says there is no data, and the run
\* ends normally.
C10_EmptyResultNoWrite ==
  /\ (pc = "done" /\ all_company_data = <<>>) =>
        (csvfile = csv0 /\ fileWrites = 0 /\ report = "no data")
  /\ (pc = "save" /\ all_company_data = <<>>) => csvfile = csv0

C10_Witness ==
  /\ pc = "done" /\ all_company_data = <<>>
  /\ csv0 = OldFile /\ csvfile = OldFile /\ report = "no data"

\* Some credential is absent from the environment.
SomeCredentialAbsent == \E c \in Credentials : ~env[c].present

\* C11: with any one of the three credentials absent the process fails at
\* startup: no search call, no extraction attempt, no call of save_to_csv
\* and no file write ever happens in that run.
C11_MissingConfigIsFatal ==
  SomeCredentialAbsent =>
     /\ pc \in {"startup", "fatal"}
     /\ ki = 0 /\ providerCalls = 0
     /\ ui = 0 /\ attempts = 0 /\ kwAttempts = 0
     /\ sinkCalls = 0 /\ fileWrites = 0 /\ csvfile = csv0

C11_Witness ==
  /\ pc = "fatal"
  /\ env = [c \in Credentials |->
              IF c = "GOOGLE_CSE_ID" THEN EnvNone ELSE EnvText("secret")]

\* ------------------------------------------------------------------------
\* The response parser taken alone: one call on a bounded set of answers
\* ------------------------------------------------------------------------
\* An answer has at most this many lines.
MaxLines == 2

\* "Tel: 5"
LineTel == KeyTel \o <<":", " ", "5">>

\* " Tel :7 " -- blanks around label and value
LineTelSpaced == <<" ">> \o KeyTel \o <<" ", ":", "7", " ">>

\* "tel: 5" -- other case
LineTelLower == <<"t", "e", "l", ":", " ", "5">>

\* "Tel:a:b" -- a colon in the value
LineTelColons == KeyTel \o <<":", "a", ":", "b">>

\* "Tel:" -- a known label with nothing after it
LineTelOnly == KeyTel \o <<":">>

\* "Tel 5" -- no colon
LineNoColon == KeyTel \o <<" ", "5">>

\* "Fax: 9"
LineFax == KeyFax \o <<":", " ", "9">>

\* "Address:x"
LineAddress == KeyAddress \o <<":", "x">>

\* "Overview: y"
LineOverview == KeyOverview \o <<":", " ", "y">>

\* "Company Name: Acme"
LineCompany == KeyCompanyName \o <<":", " ", "A", "c", "m", "e">>

\* "Phone: 1" -- a label the parser does not know
LinePhone == <<"P", "h", "o", "n", "e", ":", " ", "1">>

KeyRepresentative ==
  <<"R","e","p","r","e","s","e","n","t","a","t","i","v","e"," ","N","a","m","e">>

\* "Representative Name: Bob"
LineRepresentative == KeyRepresentative \o <<":", " ", "B", "o", "b">>

LineSamples ==
  { <<>>, LineTel, LineTelSpaced, LineTelLower, LineTelColons, LineTelOnly,
    LineNoColon, LineFax, LineAddress, LineOverview, LineCompany, LinePhone,
    LineRepresentative }

\* "\n".join(lines)
RECURSIVE Join(_)
Join(lines) ==
  IF lines = <<>> THEN <<>>
  ELSE IF Len(lines) = 1 THEN lines[1]
  ELSE lines[1] \o <<NL>> \o Join(Tail(lines))

RECURSIVE SeqsUpTo(_, _)
SeqsUpTo(S, n) ==
  IF n = 0 THEN {<<>>}
  ELSE LET shorter == SeqsUpTo(S, n - 1)
       IN  shorter \cup {Append(q, x) : q \in shorter, x \in S}

ParseInputs == {Join(ls) : ls \in SeqsUpTo(LineSamples, MaxLines)}

\* The rest of the program at rest while one parser call is looked at.
MainAtRest ==
  /\ MainInit
  /\ env = [c \in Credentials |-> EnvText("secret")]
  /\ csvfile = AbsentFile

InitParse ==
  /\ MainAtRest
  /\ CsvIdle
  /\ ppc = "call"
  /\ reply \in ParseInputs
  /\ plines = <<>>
  /\ parsed = <<>>

\* company_data = {...all blank...}; extracted_info.split("\n")
ParseBegin ==
  /\ ppc = "call"
  /\ parsed' = EmptyCompanyData
  /\ plines' = Split(reply, NL)
  /\ ppc' = "lines"
  /\ UNCHANGED <<reply, mainVars, csvVars>>

\* one pass of "for line in ..."
ParseLine ==
  /\ ppc = "lines"
  /\ plines # <<>>
  /\ parsed' = AssignLine(parsed, Head(plines))
  /\ plines' = Tail(plines)
  /\ UNCHANGED <<ppc, reply, mainVars, csvVars>>

\* return company_data
ParseReturn ==
  /\ ppc = "lines"
  /\ plines = <<>>
  /\ ppc' = "returned"
  /\ UNCHANGED <<reply, plines, parsed, mainVars, csvVars>>

NextParse ==
  \/ ParseBegin
  \/ ParseLine
  \/ ParseReturn

SpecParse == InitParse /\ [][NextParse]_vars

\* -- what the claims say about a line, stated without the parser's operators --
\* position of the first colon of a line (0: none)
ColonAt(line) ==
  IF \E i \in 1..Len(line) : line[i] = ":"
  THEN CHOOSE i \in 1..Len(line) : line[i] = ":" /\ \A j \in 1..(i - 1) : line[j] # ":"
  ELSE 0

\* s without the blanks at its two ends
Trimmed(s) ==
  LET inked == {i \in 1..Len(s) : s[i] \notin Whitespace}
  IN  IF inked = {} THEN <<>>
      ELSE SubSeq(s, CHOOSE i \in inked : \A j \in inked : i <= j,
                     CHOOSE i \in inked : \A j \in inked : i >= j)

LabelOf(line) == Trimmed(SubSeq(line, 1, ColonAt(line) - 1))

ValueOf(line) == Trimmed(SubSeq(line, ColonAt(line) + 1, Len(line)))

\* the label text of a field
FieldLabel(f) ==
  CASE f = "Company Name" -> KeyCompanyName
    [] f = "Address" -> KeyAddress
    [] f = "Tel" -> KeyTel
    [] f = "Fax" -> KeyFax
    [] f = "Overview" -> KeyOverview
    [] f = "Representative Name" -> KeyRepresentative

\* the line carries the label of field f
Labels(line, f) == ColonAt(line) > 0 /\ LabelOf(line) = FieldLabel(f)

FiveFields == {"Company Name", "Address", "Tel", "Fax", "Overview"}

SixFields == FiveFields \cup {"Representative Name"}

\* the lines of the answer, by the positions of its line feeds
LineCount(text) == 1 + Cardinality({i \in 1..Len(text) : text[i] = NL})

\* some line of the answer carries the label of field f
Labelled(text, f) ==
  \E a \in 0..Len(text), b \in 1..(Len(text) + 1) :
     /\ a < b
     /\ a = 0 \/ text[a] = NL
     /\ b = Len(text) + 1 \/ text[b] = NL
     /\ \A i \in (a + 1)..(b - 1) : text[i] # NL
     /\ Labels(SubSeq(text, a + 1, b - 1), f)

\* a record returned by the parser has exactly the given content fields,
\* blank wherever the answer has no line labelled for the field
RecordHas(fields) ==
  /\ ppc \in {"lines", "returned"} => fields \subseteq DOMAIN parsed
  /\ ppc = "returned" =>
        \A f \in fields : ~Labelled(reply, f) => parsed[f] = <<>>

\* C12 (as claimed): every record of a successful extraction carries the six
\* content fields, representative name among them, each blank when the
\* answer has no matching label.
C12_SixContentFields == RecordHas(SixFields)

\* C12 (amended): every record of a successful extraction carries the five
\* content fields Company Name, Address, Tel, Fax, Overview and no other,
\* each blank when the answer has no matching label.
C12_FiveContentFields ==
  /\ RecordHas(FiveFields)
  /\ ppc \in {"lines", "returned"} => DOMAIN parsed = FiveFields

C12_Witness ==
  /\ ppc = "returned"
  /\ reply = Join(<<LineTel, LinePhone>>)
  /\ parsed = [f \in FiveFields |-> IF f = "Tel" THEN <<"5">> ELSE <<>>]

\* What the claims say one pass over a line does, for a set of known fields:
\* a line with a colon whose trimmed label is a known field's sets that field
\* to the trimmed rest of the line and nothing else; any other line changes
\* nothing.
LineRule(fields) ==
  (ppc = "lines" /\ plines # <<>>) =>
     LET line == Head(plines)
     IN  IF \E f \in fields : Labels(line, f)
         THEN \A f \in fields :
                 Labels(line, f) =>
                    /\ f \in DOMAIN parsed'
                    /\ parsed'[f] = ValueOf(line)
                    /\ DOMAIN parsed' = DOMAIN parsed
                    /\ \A g \in DOMAIN parsed \ {f} : parsed'[g] = parsed[g]
         ELSE parsed' = parsed

\* The answer is cut at its line feeds, no line lost or added.
LinesRule ==
  ppc = "call" => (Len(plines') = LineCount(reply) /\ Join(plines') = reply)

\* C13 (as claimed): the line rule with six known field names.
C13_SixKnownLabels == [][LinesRule /\ LineRule(SixFields)]_vars

\* C13 (amended): the line rule with the five field names the parser knows
\* (Company Name, Address, Tel, Fax, Overview); a line labelled
\* "Representative Name" is an unrecognized label like any other.
C13_FiveKnownLabels == [][LinesRule /\ LineRule(FiveFields)]_vars

C13_Witness ==
  /\ ppc = "returned"
  /\ reply = Join(<<LineTelSpaced, LineTelColons>>)
  /\ parsed["Tel"] = <<"a", ":", "b">>

\* ------------------------------------------------------------------------
\* save_to_csv taken alone: the text csv.DictWriter writes (src/main.py:161-166)
\* ------------------------------------------------------------------------
\* Records handed to one call have at most this many entries.
MaxRows == 3

QUOTE == "\""

COMMA == ","

CR == "\r"

\* the writer's line terminator
CRLF == <<CR, NL>>

KeyKeyword == <<"K","e","y","w","o","r","d">>

KeyURL == <<"U","R","L">>

\* the characters of a column name
NameText(f) ==
  CASE f = "Keyword" -> KeyKeyword
    [] f = "Company Name" -> KeyCompanyName
    [] f = "Address" -> KeyAddress
    [] f = "Tel" -> KeyTel
    [] f = "Fax" -> KeyFax
    [] f = "Overview" -> KeyOverview
    [] f = "URL" -> KeyURL

\* QUOTE_MINIMAL: a field is quoted when it holds the delimiter, the quote
\* character or a character of the line terminator
MutNeedsQuote(field) == FALSE

NeedsQuote(field) == \E i \in 1..Len(field) : field[i] \in {COMMA, QUOTE, CR, NL}

\* doublequote: every quote character is written twice
RECURSIVE Doubled(_)
Doubled(field) ==
  IF field = <<>> THEN <<>>
  ELSE (IF Head(field) = QUOTE THEN <<QUOTE, QUOTE>> ELSE <<Head(field)>>)
         \o Doubled(Tail(field))

CsvField(field) ==
  IF NeedsQuote(field) THEN <<QUOTE>> \o Doubled(field) \o <<QUOTE>> ELSE field

RECURSIVE CsvJoin(_)
CsvJoin(fields) ==
  IF fields = <<>> THEN <<>>
  ELSE IF Len(fields) = 1 THEN CsvField(fields[1])
  ELSE CsvField(fields[1]) \o <<COMMA>> \o CsvJoin(Tail(fields))

\* writer.writerow: the fields, delimited, then the line terminator
CsvRow(fields) == CsvJoin(fields) \o CRLF

RECURSIVE CsvRows(_)
CsvRows(rows) == IF rows = <<>> THEN <<>> ELSE CsvRow(Head(rows)) \o CsvRows(Tail(rows))

\* writeheader, then one writerow per record, columns as WriteCsv orders them
CsvFileText(data) ==
  LET file == WriteCsv(data)
  IN  CsvRow([j \in 1..Len(file.header) |-> NameText(file.header[j])]) \o CsvRows(file.rows)

\* Records whose seven fields are text, with the characters the writer has
\* to take care of.
TextRecord(kw, name, address, tel, fax, overview, u) ==
  [f \in ContentFields \cup {"Keyword", "URL"} |->
     CASE f = "Keyword" -> kw
       [] f = "Company Name" -> name
       [] f = "Address" -> address
       [] f = "Tel" -> tel
       [] f = "Fax" -> fax
       [] f = "Overview" -> overview
       [] f = "URL" -> u]

RecordPlain ==
  TextRecord(<<"k","w">>, <<"A","c","m","e">>, <<"a",COMMA,"b">>, <<"5">>, <<>>, <<>>, <<"u">>)

RecordBlank == TextRecord(<<"k","w">>, <<>>, <<>>, <<>>, <<>>, <<>>, <<"u">>)

RecordQuotes ==
  TextRecord(<<"k",NL,"w">>, <<"A",QUOTE,"B">>, <<QUOTE,"q",QUOTE>>, <<>>,
             <<QUOTE,QUOTE>>, <<"x",CR,"y">>, <<"u">>)

RecordCommas ==
  TextRecord(<<" ","k">>, <<COMMA>>, <<COMMA,QUOTE>>, <<"5"," ","5">>, <<"9">>,
             <<"o",COMMA>>, <<"u",COMMA,"v">>)

RecordSamples == {RecordPlain, RecordBlank, RecordQuotes, RecordCommas}

CsvInputs == SeqsUpTo(RecordSamples, MaxRows) \ {<<>>}

InitCsv ==
  /\ MainAtRest
  /\ ParseIdle
  /\ cpc = "call"
  /\ cdata \in CsvInputs
  /\ ctext = <<>>
  /\ cback = [rows |-> <<>>, row |-> <<>>, field |-> <<>>, mode |-> "start_record", pos |-> 0]

\* open(filename, "w", newline=""), writeheader, writerow per record, close
CsvWrite ==
  /\ cpc = "call"
  /\ ~NoData(cdata)
  /\ ctext' = CsvFileText(cdata)
  /\ cpc' = "written"
  /\ UNCHANGED <<cdata, cback, mainVars, parseVars>>

\* What csv.reader (same dialect, file opened with newline="") makes of a
\* text: its states, one character at a time; pos characters are read.

SaveField(r) == [r EXCEPT !.row = Append(r.row, r.field), !.field = <<>>]

EndRecord(r) ==
  LET s == SaveField(r)
  IN  [s EXCEPT !.rows = Append(s.rows, s.row), !.row = <<>>, !.mode = "eat_crnl"]

AddChar(r, c, mode) == [r EXCEPT !.field = Append(r.field, c), !.mode = mode]

StartField(r, c) ==
  IF c \in {CR, NL} THEN EndRecord(r)
  ELSE IF c = QUOTE THEN [r EXCEPT !.mode = "in_quoted_field"]
  ELSE IF c = COMMA THEN [SaveField(r) EXCEPT !.mode = "start_field"]
  ELSE AddChar(r, c, "in_field")

ReaderChar(r, c) ==
  CASE r.mode = "start_record" ->
         IF c \in {CR, NL} THEN [r EXCEPT !.rows = Append(r.rows, <<>>), !.mode = "eat_crnl"]
         ELSE StartField(r, c)
    [] r.mode = "start_field" -> StartField(r, c)
    [] r.mode = "in_field" ->
         IF c \in {CR, NL} THEN EndRecord(r)
         ELSE IF c = COMMA THEN [SaveField(r) EXCEPT !.mode = "start_field"]
         ELSE AddChar(r, c, "in_field")
    [] r.mode = "in_quoted_field" ->
         IF c = QUOTE THEN [r EXCEPT !.mode = "quote_in_quoted_field"]
         ELSE AddChar(r, c, "in_quoted_field")
    [] r.mode = "quote_in_quoted_field" ->
         IF c = QUOTE THEN AddChar(r, c, "in_quoted_field")
         ELSE IF c = COMMA THEN [SaveField(r) EXCEPT !.mode = "start_field"]
         ELSE IF c \in {CR, NL} THEN EndRecord(r)
         ELSE AddChar(r, c, "in_field")
    [] r.mode = "eat_crnl" ->
         IF c \in {CR, NL} THEN r ELSE StartField(r, c)

\* at the end of the text a record without line terminator still counts
ReaderEnd(r) == IF r.mode \in {"start_record", "eat_crnl"} THEN r ELSE EndRecord(r)

CsvReadChar ==
  /\ cpc = "written"
  /\ cback.pos < Len(ctext)
  /\ cback' = [ReaderChar(cback, ctext[cback.pos + 1]) EXCEPT !.pos = cback.pos + 1]
  /\ UNCHANGED <<cpc, cdata, ctext, mainVars, parseVars>>

CsvReadEnd ==
  /\ cpc = "written"
  /\ cback.pos = Len(ctext)
  /\ cback' = ReaderEnd(cback)
  /\ cpc' = "read"
  /\ UNCHANGED <<cdata, ctext, mainVars, parseVars>>

NextCsv == CsvWrite \/ CsvReadChar \/ CsvReadEnd

SpecCsv == InitCsv /\ [][NextCsv]_vars

\* the header row and the record rows as text, in column order
HeaderRow == [j \in 1..Len(fieldnames) |-> NameText(fieldnames[j])]

RecordRow(rec) == [j \in 1..Len(fieldnames) |-> rec[fieldnames[j]]]

\* C14: reading the written file back gives the seven-column header row
\* (Keyword, Company Name, Address, Tel, Fax, Overview, URL) followed by as
\* many rows as there were records, each row holding its record's seven
\* values unchanged, in the records' order.
C14_CsvRoundTrip ==
  cpc = "read" =>
    /\ Len(cback.rows) = Len(cdata) + 1
    /\ cback.rows[1] = HeaderRow
    /\ Len(HeaderRow) = 7
    /\ \A i \in 1..Len(cdata) : cback.rows[i + 1] = RecordRow(cdata[i])

\* three records, among them fields with quotes, commas and line breaks
C14_Witness ==
  /\ cpc = "read"
  /\ Len(cdata) = 3
  /\ cdata[1] = RecordQuotes
  /\ cdata[2] = RecordCommas
  /\ Len(cback.rows) = 4
  /\ cback.rows[2][2] = <<"A", QUOTE, "B">>

\* ------------------------------------------------------------------------
\* C15 pagination of google_search_cse
\* ------------------------------------------------------------------------
\* a provider call that returned a page (no exception)
PageStep ==
  /\ pc = "search"
  /\ pc' \in {"search", "return"}
  /\ providerCalls' = providerCalls + 1
  /\ callsAtErr' = callsAtErr

\* the page size of the call about to be made
PageSizeOfCall == Requested(MAX_RESULTS_PER_KEYWORD, Len(urls))

C15_FirstOffset == (pc = "search" /\ providerCalls = 0) => start_index = 1

C15_Advance == PageStep => (PageSizeOfCall <= 10 /\ start_index' = start_index + PageSizeOfCall)

C15_Stop ==
  PageStep =>
    (pc' = "return" <=> (Len(urls') >= MAX_RESULTS_PER_KEYWORD \/ start_index' > 100))

\* C15: the first provider call of a search is made at offset 1; after a
\* call the offset has advanced by the page size of that call, which is at
\* most 10; the search stops exactly when the desired count is reached or
\* the offset exceeds 100.
C15_PaginationByPageSize == []C15_FirstOffset /\ [][C15_Advance /\ C15_Stop]_vars

\* ------------------------------------------------------------------------
\* C16 one thing at a time, in order
\* ------------------------------------------------------------------------
\* a search call or an extraction attempt is in progress
InSearch == pc \in {"search", "return"}

InUrl == pc \in {"attempt", "sleep", "after_loop"}

\* the searches made so far are the first ki configured keywords, once each
SearchedInOrder == searched = SubSeq(SEARCH_KEYWORDS, 1, ki)

\* the urls worked on so far are the first ui urls returned, once each
\* (the current one from its first attempt on)
StartedInOrder ==
  InUrl \/ pc = "url_loop" =>
    started = SubSeq(urls, 1, IF pc = "attempt" /\ attempts = 0 THEN ui - 1 ELSE ui)

\* the urls before the current one are finished, and during a search (so
\* when the next keyword's search starts) none is pending
EarlierFinished ==
  /\ InUrl => 1..(ui - 1) \subseteq terminal
  /\ pc = "url_loop" => terminal = 1..ui
  /\ InSearch => terminal = {} /\ started = <<>>

\* a search runs from its first call to its return and is not entered again
SearchNotRetried == pc # "search" /\ pc' = "search" => ki' = ki + 1

\* the next search starts only with every url of this keyword finished
NextSearchAfterUrls == ki' # ki => (ki' = ki + 1 /\ terminal = 1..Len(urls))

\* C16: keywords are searched in configured order, once each and never
\* again; a keyword's urls are taken up in the order returned; every url
\* of a keyword is Done or Exhausted before the next keyword's search
\* starts; a search and an extraction attempt are never in progress together.
C16_SequentialInOrder ==
  /\ [](SearchedInOrder /\ StartedInOrder /\ EarlierFinished /\ ~(InSearch /\ InUrl))
  /\ [][SearchNotRetried /\ NextSearchAfterUrls]_vars

\* the second keyword's search has started after the first keyword's urls
\* were finished, one of them with a record
C16_Witness ==
  /\ pc = "search"
  /\ ki = 2
  /\ searched = SubSeq(SEARCH_KEYWORDS, 1, 2)
  /\ Len(all_company_data) = 1
  /\ provenance[1][1] = SEARCH_KEYWORDS[1]

\* ------------------------------------------------------------------------
\* C17 the result set only grows, in processing order
\* ------------------------------------------------------------------------
\* position (keyword index, url index) a comes before position b
Before(a, b) == a[3] < b[3] \/ (a[3] = b[3] /\ a[4] < b[4])

\* the records lie in the order their urls were processed, no url
\* occurrence with two records
RecordsInProcessingOrder ==
  /\ Len(provenance) = Len(all_company_data)
  /\ \A i \in 1..Len(provenance) : \A j \in 1..Len(provenance) :
       i < j => Before(provenance[i], provenance[j])
  /\ \A i \in 1..Len(all_company_data) :
       /\ all_company_data[i]["Keyword"] = SEARCH_KEYWORDS[provenance[i][3]]
       /\ all_company_data[i]["URL"] = provenance[i][2]
  /\ urlRecords <= 1

\* a step keeps what is there as a prefix and adds at most one record
GrowsAtEnd ==
  /\ Len(all_company_data') \in {Len(all_company_data), Len(all_company_data) + 1}
  /\ SubSeq(all_company_data', 1, Len(all_company_data)) = all_company_data

\* C17: every step leaves the earlier contents of the result set as an
\* unchanged prefix; each processed url occurrence has at most one record;
\* the records are in keyword order, then url order within a keyword.
C17_AppendOnlyOrdered == []RecordsInProcessingOrder /\ [][GrowsAtEnd]_vars

\* two records of different keywords, the earlier keyword's first
C17_Witness ==
  /\ Len(all_company_data) = 2
  /\ provenance[1][3] = 1
  /\ provenance[2][3] = 2
  /\ all_company_data[1]["Keyword"] = SEARCH_KEYWORDS[1]
  /\ all_company_data[2]["Keyword"] = SEARCH_KEYWORDS[2]

\* ------------------------------------------------------------------------
\* C18 an answer without any field is still a success
\* ------------------------------------------------------------------------
LastRecord == all_company_data[Len(all_company_data)]

\* the current url's record has every content field empty
BlankSuccess == urlRecords = 1 /\ AllBlank(LastRecord)

\* C18: an attempt that completed without error is never counted as a
\* failure, also when every content field came out empty: its record is in
\* the result set with the keyword and url it was made for, the url gets no
\* further attempt and no failure notice.
C18_BlankRecordIsSuccess ==
  /\ lastError # "ok"
  /\ BlankSuccess =>
       /\ outcome = "done"
       /\ LastRecord["Keyword"] = keyword
       /\ LastRecord["URL"] = url
       /\ attempts = fails + 1
       /\ pc \notin {"attempt", "sleep"}

\* a first attempt answered without any known label, url finished
C18_Witness ==
  /\ pc = "url_loop"
  /\ BlankSuccess
  /\ outcome = "done"
  /\ attempts = 1
  /\ kwNotices = 0

\* ------------------------------------------------------------------------
\* C19 one outcome per url
\* ------------------------------------------------------------------------
\* C19: a url that has been processed has exactly one of a record and a
\* failure notice; the notice is there exactly when MAX_RETRIES attempts
\* failed, and never together with a record, a record made by the last
\* permitted attempt included.
C19_ExactlyOneOutcome ==
  /\ outcome # "both"
  /\ UrlFinished =>
       /\ outcome \in {"done", "exhausted"}
       /\ outcome = "exhausted" <=> fails = MAX_RETRIES
       /\ outcome = "done" <=> urlRecords = 1
       /\ outcome = "exhausted" => urlRecords = 0
  /\ kwNotices <= Cardinality(terminal)

\* success on the last permitted attempt, no notice
C19_Witness ==
  /\ pc = "url_loop"
  /\ outcome = "done"
  /\ fails = MAX_RETRIES - 1
  /\ attempts = MAX_RETRIES
  /\ kwNotices = 0
  /\ terminal = {ui}

\* ------------------------------------------------------------------------
\* C20 the run ends
\* ------------------------------------------------------------------------
\* the run is over: after the Sink, or ended by an exception at start-up
\* (credentials) or out of a provider call
Ended == pc \in {"done", "fatal", "aborted"}

\* provider calls one search can make
MaxProviderCalls == MAX_START_INDEX \div PAGE_SIZE

\* steps one url can take at most: attempt and sleep per retry, the check
\* after the loop, and the step that took it up
UrlSteps == 2 * MAX_RETRIES + 3

\* steps left for the urls of this keyword after url number i
UrlLoopSteps(i) == (MAX_RESULTS_PER_KEYWORD - i) * UrlSteps + 1

\* steps one keyword can take at most
KeywordSteps == MaxProviderCalls + 3 + UrlLoopSteps(0)

\* steps left within the current keyword
StepsInKeyword ==
  CASE pc = "search" -> (MaxProviderCalls - providerCalls) + 2 + UrlLoopSteps(0)
    [] pc = "return" -> 1 + UrlLoopSteps(0)
    [] pc = "url_loop" -> UrlLoopSteps(ui)
    [] pc = "attempt" -> UrlLoopSteps(ui) + 2 * (MAX_RETRIES - retries) + 2
    [] pc = "sleep" -> UrlLoopSteps(ui) + 2 * (MAX_RETRIES - retries) + 3
    [] pc = "after_loop" -> UrlLoopSteps(ui) + 1
    [] OTHER -> 0

\* an upper bound of the steps the run can still take
StepsLeft ==
  CASE Ended -> 0
    [] pc = "save" -> 1
    [] pc = "startup" -> 3 + KeywordSteps * NumKeywords
    [] OTHER -> 2 + KeywordSteps * (NumKeywords - ki) + StepsInKeyword

C20_Bounded ==
  /\ providerCalls <= MaxProviderCalls
  /\ MaxProviderCalls = 10
  /\ attempts <= MAX_RETRIES
  /\ kwAttempts <= MAX_RESULTS_PER_KEYWORD * MAX_RETRIES
  /\ ki <= NumKeywords
  /\ StepsLeft >= 0
  /\ ~Ended => ENABLED Next
  /\ pc = "done" => (sinkCalls = 1 /\ ki = NumKeywords)
  /\ pc = "fatal" => ~ConfigComplete(env)

\* the only other way not to reach the Sink: a provider call that did not
\* return but raised something google_search_cse does not catch
AbortOnlyInProviderCall ==
  (pc # "aborted" /\ pc' = "aborted") =>
     (pc = "search" /\ providerCalls' = providerCalls + 1)

====
